---- MODULE Spec2Model ----
(***************************************************************************)
(* Model of src/app.py: a Flask service that fetches media with yt-dlp,    *)
(* caches it in DOWNLOAD_DIR, re-encodes audio with ffmpeg, serves files   *)
(* with byte-range support and sweeps old files in a background thread.    *)
(*                                                                         *)
(* Strings that the code inspects (file names, Range headers, stderr) are  *)
(* sequences: file names are sequences of one-character strings, a Range   *)
(* header is a sequence of lexical tokens (a word, a punctuation mark or a *)
(* run of digits).  A file is a record [size, mtime, gen]; gen names the   *)
(* content (every write by yt-dlp or ffmpeg produces a fresh gen).         *)
(***************************************************************************)
EXTENDS Integers, Sequences, FiniteSets, TLC

VARIABLES
    fs,        \* DOWNLOAD_DIR: file name -> [size, mtime, gen]
    now,       \* time.time(), in seconds
    nextGen,   \* next fresh content id
    last,      \* the last operation: its arguments, result and observations
    discarded, \* gens of the files download_media removed as corrupt
    reqs,      \* the requests in progress: worker thread -> its position
    evicted    \* canonical names the sweep deleted, until a fetch puts a
               \* file there again

vars == <<fs, now, nextGen, last, discarded, reqs, evicted>>

(***************************************************************************)
(* Bounds of the model.                                                    *)
(***************************************************************************)
\* number of file contents ever written (by yt-dlp or ffmpeg)
MaxGen == 2
\* number of file contents written while requests of all kinds and the
\* sweep run at the same time
MaxWrites == 3
\* number of clock ticks
MaxTicks == 2

(***************************************************************************)
(* Program constants.                                                      *)
(***************************************************************************)
\* ensure_audio_compatibility: "if file_size < 10000"
ENSURE_MIN_SIZE == 10000
\* stream_file: "if file_size < 10000"
STREAM_MIN_SIZE == 10000
\* download_media: "if file_size > 50000"
CACHE_MIN_SIZE == 50000
\* cleanup: "if file_age > 86400"
MAX_FILE_AGE == 86400
\* download_media: result.stderr[:500]
STDERR_MAX == 500

None == -1

Min(a, b) == IF a < b THEN a ELSE b

(***************************************************************************)
(* Python string operations on sequences.                                  *)
(***************************************************************************)
\* s.startswith(p)
StartsWith(s, p) == Len(p) <= Len(s) /\ SubSeq(s, 1, Len(p)) = p

\* s.endswith(p)
EndsWith(s, p) ==
    Len(p) <= Len(s) /\ SubSeq(s, Len(s) - Len(p) + 1, Len(s)) = p

\* p in s
Contains(s, p) ==
    \E i \in 1..(Len(s) - Len(p) + 1) : SubSeq(s, i, i + Len(p) - 1) = p

\* s[:n]
Truncate(s, n) == SubSeq(s, 1, Min(Len(s), n))

\* s.split(sep) for a one-element separator: the list of the parts
RECURSIVE SplitFrom(_, _, _, _)
SplitFrom(s, sep, i, cur) ==
    IF i > Len(s) THEN <<cur>>
    ELSE IF s[i] = sep THEN <<cur>> \o SplitFrom(s, sep, i + 1, <<>>)
    ELSE SplitFrom(s, sep, i + 1, Append(cur, s[i]))

Split(s, sep) == SplitFrom(s, sep, 1, <<>>)

(***************************************************************************)
(* File names.                                                             *)
(***************************************************************************)
MP3 == <<".", "m", "p", "3">>
MP4 == <<".", "m", "p", "4">>
WEBM == <<".", "w", "e", "b", "m">>
TEMP_SUFFIX == <<".", "t", "e", "m", "p">> \o MP3
FIXED_SUFFIX == <<".", "f", "i", "x", "e", "d">> \o MP3
DOTDOT == <<".", ".">>
SLASH == <<"/">>

\* video ids of the requests; the first is a prefix of the second
Ids == {<<"a">>, <<"a", "b">>}
MediaTypes == {"audio", "video"}

\* output_file = f"{video_id}.{'mp3' if media_type == 'audio' else 'mp4'}"
OutputFile(video_id, media_type) ==
    video_id \o (IF media_type = "audio" THEN MP3 ELSE MP4)

(***************************************************************************)
(* The file system under DOWNLOAD_DIR.                                     *)
(***************************************************************************)
Exists(dir, name) == name \in DOMAIN dir

GetSize(dir, name) == dir[name].size

Remove(dir, name) == [n \in DOMAIN dir \ {name} |-> dir[n]]

\* a write that keeps a file that is already there
WriteFileIfAbsent(dir, name, file) ==
    IF name \in DOMAIN dir THEN dir
    ELSE [n \in DOMAIN dir \cup {name} |-> IF n = name THEN file ELSE dir[n]]

WriteFile(dir, name, file) ==
    [n \in DOMAIN dir \cup {name} |-> IF n = name THEN file ELSE dir[n]]

\* a move that leaves the directory as it is
MoveNothing(dir, src, dst) == dir

\* shutil.move(src, dst) inside one directory: os.rename, which replaces dst
Move(dir, src, dst) ==
    IF src = dst THEN dir
    ELSE [n \in (DOMAIN dir \ {src}) \cup {dst} |->
             IF n = dst THEN dir[src] ELSE dir[n]]

File(size, mtime, gen) == [size |-> size, mtime |-> mtime, gen |-> gen]

\* the sizes of the files the external tools write
Sizes == {0, STREAM_MIN_SIZE, CACHE_MIN_SIZE, CACHE_MIN_SIZE + 1}

\* f.seek(start); f.read(length): the span read, as [gen, from, len]
\* (a negative length reads to the end of the file)
ReadSpan(file, start, length) ==
    LET avail == IF start >= file.size THEN 0 ELSE file.size - start
        n == IF length < 0 THEN avail ELSE Min(length, avail)
    IN [gen |-> file.gen, from |-> start, len |-> n]

NoFiles == [n \in {} |-> File(0, 0, 0)]

NoBody == [gen |-> 0, from |-> 0, len |-> 0]

(***************************************************************************)
(* Range headers.                                                          *)
(***************************************************************************)
Sym(s) == [t |-> "sym", s |-> s, v |-> 0]
Num(n) == [t |-> "num", s |-> "", v |-> n]
EQ == Sym("=")
DASH == Sym("-")
COMMA == Sym(",")
SPACE == Sym(" ")
BYTES == Sym("bytes")

\* s.strip()
RECURSIVE Strip(_)
Strip(s) ==
    IF s = <<>> THEN s
    ELSE IF Head(s) = SPACE THEN Strip(Tail(s))
    ELSE IF s[Len(s)] = SPACE THEN Strip(SubSeq(s, 1, Len(s) - 1))
    ELSE s

\* int(s): [ok, v]; not ok stands for ValueError
IntOf(s) ==
    LET d == Strip(s)
    IN IF Len(d) = 1 /\ d[1].t = "num"
       THEN [ok |-> TRUE, v |-> d[1].v]
       ELSE [ok |-> FALSE, v |-> 0]

\* parse_range_header(range_header, file_size): <<range_start, range_end>>,
\* range_end exclusive
parse_range_header(range_header, file_size) ==
    LET halves == Split(range_header, EQ)
        whole == <<0, file_size>>
    IN IF Len(halves) # 2 THEN whole
       ELSE IF Strip(halves[1]) # <<BYTES>> THEN whole
       ELSE LET range_parts == Split(Strip(halves[2]), DASH)
                first == IntOf(range_parts[1])
                second == IF Len(range_parts) > 1
                          THEN IntOf(range_parts[2])
                          ELSE [ok |-> FALSE, v |-> 0]
                hasEnd == Len(range_parts) > 1 /\ range_parts[2] # <<>>
            IN IF range_parts[1] # <<>> /\ ~first.ok THEN whole
               ELSE IF hasEnd /\ ~second.ok THEN whole
               ELSE LET range_start ==
                            IF range_parts[1] # <<>> THEN first.v ELSE 0
                        range_end ==
                            IF hasEnd THEN second.v + 1 ELSE file_size
                    IN <<range_start, Min(range_end, file_size)>>

(***************************************************************************)
(* ffmpeg and yt-dlp: what a run of the external tool does is an input.    *)
(***************************************************************************)
\* sizes of the files ffmpeg writes
FfSizes == {STREAM_MIN_SIZE, CACHE_MIN_SIZE + 1}

\* a run of ffmpeg: it ends "ok" (returncode 0, output written), "fail"
\* (returncode not 0) or "timeout" (subprocess.run raises TimeoutExpired);
\* a failed or killed run may leave a partial output file
FfOutcomes ==
    [rc : {"ok"}, out : FfSizes]
        \cup [rc : {"fail", "timeout"}, out : {None, 0}]

\* ffmpeg ... -y temp_path: the directory after the run
RunFfmpeg(dir, temp_path, ff, t, gen) ==
    IF ff.out = None THEN dir
    ELSE WriteFile(dir, temp_path, File(ff.out, t, gen))

GenAfter(gen, out) == IF out = None THEN gen ELSE gen + 1

\* "os.remove(filepath); shutil.move(temp_path, filepath)"
ReplaceOriginal(dir, filepath, temp_path) ==
    Move(Remove(dir, filepath), temp_path, filepath)

\* simple_audio_fix(filepath): the set of its possible results [fs, ok, gen],
\* one for each run of ffmpeg
simple_audio_fix(dir, filepath, t, gen) ==
    LET temp_path == filepath \o FIXED_SUFFIX
        after(ff) ==
            LET d1 == RunFfmpeg(dir, temp_path, ff, t, gen)
                g1 == GenAfter(gen, ff.out)
            IN IF ff.rc = "timeout"
               THEN [fs |-> d1, ok |-> FALSE, gen |-> g1]
               ELSE IF ff.rc = "ok" /\ Exists(d1, temp_path)
               THEN [fs |-> ReplaceOriginal(d1, filepath, temp_path),
                     ok |-> TRUE, gen |-> g1]
               ELSE [fs |-> d1, ok |-> FALSE, gen |-> g1]
    IN {after(ff) : ff \in FfOutcomes}

\* ensure_audio_compatibility(filepath): the set of its possible results
\* [fs, ok, gen], one for each run of ffmpeg (and of simple_audio_fix)
ensure_audio_compatibility(dir, filepath, t, gen) ==
    IF ~Exists(dir, filepath) THEN {[fs |-> dir, ok |-> FALSE, gen |-> gen]}
    ELSE IF GetSize(dir, filepath) < ENSURE_MIN_SIZE
    THEN {[fs |-> dir, ok |-> FALSE, gen |-> gen]}
    ELSE LET temp_path == filepath \o TEMP_SUFFIX
             after(ff) ==
                 LET d1 == RunFfmpeg(dir, temp_path, ff, t, gen)
                     g1 == GenAfter(gen, ff.out)
                 IN IF ff.rc = "timeout"
                    THEN {[fs |-> d1, ok |-> FALSE, gen |-> g1]}
                    ELSE IF ff.rc = "ok" /\ Exists(d1, temp_path)
                    THEN {[fs |-> ReplaceOriginal(d1, filepath, temp_path),
                           ok |-> TRUE, gen |-> g1]}
                    ELSE simple_audio_fix(d1, filepath, t, g1)
         IN UNION {after(ff) : ff \in FfOutcomes}

\* result.stderr of yt-dlp
Stderrs == {<<>>, <<"E", "R", "R">>}

\* a run of yt-dlp: rc as for ffmpeg; wrote: nothing, the canonical file
\* {video_id}.mp3/.mp4, or {video_id} with another extension (%(ext)s)
YtOutcomes ==
    [rc : {"ok"}, stderr : {<<>>}, wrote : {"canonical", "other"},
     size : Sizes]
        \cup [rc : {"ok"}, stderr : {<<>>}, wrote : {"none"}, size : {None}]
        \cup [rc : {"fail"}, stderr : Stderrs, wrote : {"none"},
              size : {None}]
        \cup [rc : {"timeout"}, stderr : {<<>>}, wrote : {"none"},
              size : {None}]

\* yt-dlp ... --output DOWNLOAD_DIR/{video_id}.%(ext)s
RunYtDlp(dir, video_id, media_type, yt, t, gen) ==
    IF yt.wrote = "none" THEN dir
    ELSE WriteFile(dir,
                   IF yt.wrote = "canonical"
                   THEN OutputFile(video_id, media_type)
                   ELSE video_id \o WEBM,
                   File(yt.size, t, gen))

DOWNLOAD_DIR == <<"d", "o", "w", "n", "l", "o", "a", "d", "s", "/">>
DOWNLOAD_FAILED == <<"Download failed">>
TIMED_OUT == <<"Command timed out after 300 seconds">>

\* "result.stderr[:500] if result.stderr else 'Download failed'"
ErrorDetail(stderr) ==
    IF stderr # <<>> THEN Truncate(stderr, STDERR_MAX) ELSE DOWNLOAD_FAILED

\* "if media_type == 'audio': ensure_audio_compatibility(output_path)",
\* then "return True, output_path"
PostProcess(dir, output_file, media_type, t, gen, fetched, removed, wrote) ==
    LET es == IF media_type = "audio"
              THEN ensure_audio_compatibility(dir, output_file, t, gen)
              ELSE {[fs |-> dir, ok |-> TRUE, gen |-> gen]}
    IN {[fs |-> e.fs, ok |-> TRUE, detail |-> DOWNLOAD_DIR \o output_file,
         fetched |-> fetched, gen |-> e.gen, removed |-> removed,
         cause |-> "none", wrote |-> wrote] : e \in es}

\* a cache check that takes any existing file
IsCacheHitAnySize(file_size) == file_size >= 0

\* the file-size test of the cache hit
IsCacheHit(file_size) == file_size > CACHE_MIN_SIZE

\* the part of download_media from the run of yt-dlp on: the set of its
\* possible results, one for each run of yt-dlp and each file os.listdir may
\* give first among those with the prefix
FetchMedia(dir, video_id, media_type, t, gen, removed) ==
    LET output_file == OutputFile(video_id, media_type)
        after(yt) ==
            LET d1 == RunYtDlp(dir, video_id, media_type, yt, t, gen)
                g1 == IF yt.wrote = "none" THEN gen ELSE gen + 1
                failure(detail, cause) ==
                    [fs |-> d1, ok |-> FALSE, detail |-> detail,
                     fetched |-> 1, gen |-> g1, removed |-> removed,
                     cause |-> cause, wrote |-> yt.wrote]
                matches == {f \in DOMAIN d1 : StartsWith(f, video_id)}
            IN IF yt.rc = "timeout" THEN {failure(TIMED_OUT, "timeout")}
               ELSE IF yt.rc # "ok"
               THEN {failure(ErrorDetail(yt.stderr), "exit")}
               ELSE IF Exists(d1, output_file)
               THEN PostProcess(d1, output_file, media_type, t, g1, 1,
                                removed, yt.wrote)
               ELSE IF matches # {}
               THEN UNION {PostProcess(Move(d1, found, output_file),
                                       output_file, media_type, t, g1, 1,
                                       removed, yt.wrote) :
                              found \in matches}
               ELSE {failure(ErrorDetail(yt.stderr), "missing")}
    IN UNION {after(yt) : yt \in YtOutcomes}

\* download_media(video_id, media_type): the set of its possible results
\* [fs, ok, detail, fetched, gen, removed, cause, wrote]: (ok, detail) is the
\* pair it returns, fetched the number of runs of yt-dlp, removed the gen of
\* the file it removed as corrupt (0: none), cause the failure condition of
\* the fetch ("none" on success), wrote what yt-dlp wrote
download_media(dir, video_id, media_type, t, gen) ==
    LET output_file == OutputFile(video_id, media_type)
    IN IF Exists(dir, output_file)
       THEN IF IsCacheHit(GetSize(dir, output_file))
            THEN PostProcess(dir, output_file, media_type, t, gen, 0, 0,
                             "none")
            ELSE FetchMedia(Remove(dir, output_file), video_id, media_type,
                            t, gen, dir[output_file].gen)
       ELSE FetchMedia(dir, video_id, media_type, t, gen, 0)

\* get_video_id(url) for a url that holds none of the URL shapes
\* (youtube.com/..., youtu.be/...): the direct id, the text after the last
\* "v=" up to "&", or the url itself
get_video_id(url) ==
    LET VEQ == <<"v", "=">>
        starts == {i \in 1..(Len(url) - 1) : SubSeq(url, i, i + 1) = VEQ}
        lastv == CHOOSE i \in starts : \A j \in starts : j <= i
        rest == SubSeq(url, lastv + 2, Len(url))
    IN IF Len(url) = 11 /\ ~Contains(url, <<" ">>) /\ ~Contains(url, SLASH)
          /\ ~Contains(url, <<"=">>)
       THEN url
       ELSE IF starts # {} THEN Split(rest, "&")[1]
       ELSE url

\* download(): the /download handler, for the video_url and type parameters
\* of the given sets
Download(urls, types) ==
    \E video_url \in urls, media_type \in types :
        IF \/ video_url = <<>>
           \/ media_type \notin {"audio", "video"}
           \/ get_video_id(video_url) = <<>>
        THEN /\ last' = [op |-> "download", status |-> 400]
             /\ UNCHANGED <<fs, now, nextGen, discarded, reqs, evicted>>
        ELSE LET video_id == get_video_id(video_url)
                 output_file == OutputFile(video_id, media_type)
             IN \E r \in download_media(fs, video_id, media_type, now,
                                        nextGen) :
                    /\ r.gen <= MaxGen + 1
                    /\ fs' = r.fs
                    /\ nextGen' = r.gen
                    /\ discarded' = IF r.removed = 0 THEN discarded
                                    ELSE discarded \cup {r.removed}
                    /\ last' = [op |-> "download",
                                status |-> IF r.ok THEN 200 ELSE 500,
                                video_id |-> video_id,
                                media_type |-> media_type,
                                ok |-> r.ok, detail |-> r.detail,
                                fetched |-> r.fetched, cause |-> r.cause,
                                wrote |-> r.wrote, removed |-> r.removed,
                                preSize |-> IF Exists(fs, output_file)
                                            THEN GetSize(fs, output_file)
                                            ELSE None]
                    /\ UNCHANGED <<now, reqs, evicted>>

(***************************************************************************)
(* /stream/<filename>                                                      *)
(***************************************************************************)
NoRange == <<>>

\* a response: status, the Content-Length and Content-Range headers (None,
\* <<>>: not set by the handler), the body as the span of the file read,
\* and size, the size of the file the body was read from (None: no file read)
Response(status, ctype, clen, crange, body, size) ==
    [status |-> status, ctype |-> ctype, clen |-> clen, crange |-> crange,
     body |-> body, size |-> size]

ErrorResponse(status) == Response(status, "json", None, <<>>, NoBody, None)

\* send_range_request(filepath, content_type, range_header, file_size)
send_range_request(dir, filepath, content_type, range_header, file_size) ==
    LET r == parse_range_header(range_header, file_size)
        range_start == r[1]
        range_end == r[2]
        length == range_end - range_start
    IN IF range_start >= file_size \/ range_end > file_size
       THEN Response(416, "text", None, <<>>, NoBody, None)
       ELSE IF ~Exists(dir, filepath) THEN ErrorResponse(500)
       ELSE Response(206, content_type, length,
                     <<range_start, range_end - 1, file_size>>,
                     ReadSpan(dir[filepath], range_start, length),
                     dir[filepath].size)

\* the single range "bytes=a-b" or "bytes=a-" as RFC 7233 reads it:
\* <<first, last>> of a file of the given size, <<>> when the header is not
\* of these forms
SimpleRange(range_header, size) ==
    IF Len(range_header) \in {4, 5} /\ range_header[1] = BYTES
       /\ range_header[2] = EQ /\ range_header[3].t = "num"
       /\ range_header[4] = DASH
       /\ (Len(range_header) = 5 => range_header[5].t = "num")
    THEN <<range_header[3].v,
           IF Len(range_header) = 5 THEN Min(range_header[5].v, size - 1)
           ELSE size - 1>>
    ELSE <<>>

\* send_file(filepath, mimetype=..., last_modified=...) of Flask, followed
\* by the handler's "response.headers['Content-Length'] = str(file_size)":
\* the set of possible responses.  Without a Range header the whole file
\* with status 200.  With one, what the installed Flask does decides: it
\* ignores the header (200), or it processes it (conditional=True), giving
\* 206 with the span or raising RequestedRangeNotSatisfiable, which the
\* handler's "except Exception" turns into 500
send_file(dir, filepath, content_type, range_header, file_size) ==
    LET file == dir[filepath]
        full == Response(200, content_type, file_size, <<>>,
                         ReadSpan(file, 0, file.size), file.size)
        sr == SimpleRange(range_header, file.size)
    IN IF range_header = NoRange THEN {full}
       ELSE {full, ErrorResponse(500)}
            \cup (IF sr # <<>> /\ sr[1] < file.size /\ sr[1] <= sr[2]
                  THEN {Response(206, content_type, file_size,
                                 <<sr[1], sr[2], file.size>>,
                                 ReadSpan(file, sr[1], sr[2] - sr[1] + 1),
                                 file.size)}
                  ELSE {})

\* a security check that forgets the '/'
IsUnsafeNameDotsOnly(filename) == Contains(filename, DOTDOT)

\* the "Security check" of stream_file
IsUnsafeName(filename) ==
    Contains(filename, DOTDOT) \/ Contains(filename, SLASH)

ContentType(filename) ==
    IF EndsWith(filename, MP3) THEN "audio/mpeg"
    ELSE IF EndsWith(filename, MP4) THEN "video/mp4"
    ELSE "application/octet-stream"

\* stream_file(filename) with the given Range header: the set of its possible
\* results [fs, gen, resp, fsops]; fsops lists the file-system calls made
stream_file(dir, filename, range_header, t, gen) ==
    LET result(d, g, resp, ops) ==
            [fs |-> d, gen |-> g, resp |-> resp, fsops |-> ops]
    IN IF IsUnsafeName(filename)
       THEN {result(dir, gen, ErrorResponse(400), <<>>)}
       ELSE IF ~Exists(dir, filename)
       THEN {result(dir, gen, ErrorResponse(404), <<"exists">>)}
       ELSE LET file_size == GetSize(dir, filename)
                content_type == ContentType(filename)
            IN IF file_size < STREAM_MIN_SIZE
               THEN {result(dir, gen, ErrorResponse(500),
                            <<"exists", "getsize">>)}
               ELSE LET es == IF EndsWith(filename, MP3)
                              THEN ensure_audio_compatibility(dir, filename,
                                                              t, gen)
                              ELSE {[fs |-> dir, ok |-> TRUE, gen |-> gen]}
                        ops == <<"exists", "getsize">>
                                 \o (IF EndsWith(filename, MP3)
                                     THEN <<"ensure_audio_compatibility">>
                                     ELSE <<>>)
                                 \o <<"stat", "open">>
                        serve(e) ==
                            IF ~Exists(e.fs, filename)
                            THEN {ErrorResponse(500)}
                            ELSE IF range_header # NoRange
                                    /\ EndsWith(filename, MP3)
                            THEN {send_range_request(e.fs, filename,
                                      content_type, range_header, file_size)}
                            ELSE send_file(e.fs, filename, content_type,
                                           range_header, file_size)
                    IN UNION {{result(e.fs, e.gen, resp, ops) :
                                  resp \in serve(e)} : e \in es}

\* GET /stream/<filename> for the file names and Range headers of the sets
Stream(names, headers) ==
    \E filename \in names, range_header \in headers :
        \E r \in stream_file(fs, filename, range_header, now, nextGen) :
            /\ r.gen <= MaxGen + 1
            /\ fs' = r.fs
            /\ nextGen' = r.gen
            /\ last' = [op |-> "stream", filename |-> filename,
                        range |-> range_header, resp |-> r.resp,
                        fsops |-> r.fsops,
                        preSize |-> IF Exists(fs, filename)
                                    THEN GetSize(fs, filename) ELSE None]
            /\ UNCHANGED <<now, discarded, reqs, evicted>>

(***************************************************************************)
(* cleanup_old_files                                                       *)
(***************************************************************************)
NoName == <<>>

\* the sequences that list the elements of S once each
RECURSIVE Listings(_)
Listings(S) ==
    IF S = {} THEN {<<>>}
    ELSE UNION {{<<x>> \o l : l \in Listings(S \ {x})} : x \in S}

\* an age test that also takes the files of exactly the maximum age
IsExpiredInclusive(file, current_time) ==
    current_time - file.mtime >= MAX_FILE_AGE

\* the test of cleanup on one file
IsExpired(file, current_time) == current_time - file.mtime > MAX_FILE_AGE

\* the for loop of cleanup from the i-th name of the listing on;
\* os.remove raises on the file named unremovable, and the exception leaves
\* the loop: [fs, completed]
RECURSIVE CleanupLoop(_, _, _, _, _)
CleanupLoop(dir, listing, i, current_time, unremovable) ==
    IF i > Len(listing) THEN [fs |-> dir, completed |-> TRUE]
    ELSE LET filename == listing[i]
         IN IF Exists(dir, filename) /\ IsExpired(dir[filename], current_time)
            THEN IF filename = unremovable
                 THEN [fs |-> dir, completed |-> FALSE]
                 ELSE CleanupLoop(Remove(dir, filename), listing, i + 1,
                                  current_time, unremovable)
            ELSE CleanupLoop(dir, listing, i + 1, current_time, unremovable)

\* one pass of the while loop of cleanup: os.listdir gives the files in any
\* order; os.remove may raise on one file
Cleanup ==
    \E listing \in Listings(DOMAIN fs), unremovable \in DOMAIN fs \cup {NoName} :
        LET r == CleanupLoop(fs, listing, 1, now, unremovable)
        IN /\ fs' = r.fs
           /\ last' = [op |-> "sweep", completed |-> r.completed,
                       pre |-> fs, current_time |-> now,
                       unremovable |-> unremovable]
           /\ UNCHANGED <<now, nextGen, discarded, reqs, evicted>>

\* the worker threads that serve requests at the same time
Slots == {1, 2}

\* a thread that serves no request
Idle == [op |-> "idle", pc |-> "idle", video_id |-> <<>>,
         media_type |-> "none", filename |-> <<>>, temp |-> <<>>,
         ret |-> "none", status |-> None, miss |-> FALSE, wgen |-> 0,
         swept |-> FALSE]

Init ==
    /\ fs = NoFiles
    /\ now = 0
    /\ nextGen = 1
    /\ last = [op |-> "none"]
    /\ discarded = {}
    /\ reqs = [i \in Slots |-> Idle]
    /\ evicted = {}

\* time passes: the maximum file age at a time
Tick ==
    /\ now < MaxTicks * MAX_FILE_AGE
    /\ now' = now + MAX_FILE_AGE
    /\ UNCHANGED <<fs, nextGen, last, discarded, reqs, evicted>>

(***************************************************************************)
(* Requests.                                                               *)
(***************************************************************************)
OneId == {<<"a">>}
AllTypes == MediaTypes \cup {"other"}

\* the video_url parameters of the /download requests
Urls == OneId \cup {<<>>, <<"v", "=", "a", "&", "t">>}

CanonicalNames(ids) == {OutputFile(id, mt) : id \in ids, mt \in MediaTypes}

UnsafeNames == {DOTDOT \o SLASH \o <<"x">>, <<"a">> \o SLASH \o <<"b">>,
                <<"a">> \o DOTDOT \o MP3}

Hdr(a, b) == <<BYTES, EQ, Num(a), DASH, Num(b)>>
HdrFrom(a) == <<BYTES, EQ, Num(a), DASH>>
HdrSuffix(b) == <<BYTES, EQ, DASH, Num(b)>>

RangeHeaders ==
    {Hdr(0, 99), Hdr(100, CACHE_MIN_SIZE), HdrFrom(100), HdrSuffix(500),
     HdrFrom(STREAM_MIN_SIZE), HdrFrom(CACHE_MIN_SIZE + 1),
     Hdr(0, 10) \o <<COMMA, Num(20), DASH, Num(30)>>,
     Hdr(99, 0),
     <<Sym("items"), EQ, Num(0), DASH, Num(99)>>,
     <<BYTES>>,
     <<BYTES, SPACE, EQ, SPACE, Num(0), DASH, Num(99)>>}

(***************************************************************************)
(* Specifications.                                                         *)
(***************************************************************************)
\* the cache: /download, and /stream of safe and unsafe names
DownloadRequest == Download(Urls, AllTypes)
PlainStream ==
    Stream(CanonicalNames(OneId) \cup UnsafeNames, {NoRange, Hdr(0, 99)})
NextCache == DownloadRequest \/ PlainStream
SpecCache == Init /\ [][NextCache]_vars

\* the file server: /download of one id and /stream with Range headers
FillCache == Download(OneId, MediaTypes)
RangeStream ==
    Stream(CanonicalNames(OneId) \cup UnsafeNames,
           RangeHeaders \cup {NoRange})
NextServe == FillCache \/ RangeStream
SpecServe == Init /\ [][NextServe]_vars

\* the sweep: /download of video, the clock and the sweep
FillVideo == Download(Ids, {"video"})
NextSweep == FillVideo \/ Tick \/ Cleanup
SpecSweep == Init /\ [][NextSweep]_vars

\* the sweep with its thread scheduled again and again: the daemon thread
\* of cleanup loops for ever and sleeps a bounded time between two passes
SpecSweepFair == SpecSweep /\ WF_vars(Cleanup)

(***************************************************************************)
(* Requests that run at the same time.  Flask serves every request in a    *)
(* thread of its own and cleanup_old_files runs in a daemon thread.  A     *)
(* step of a request is one file-system call or one run of an external     *)
(* tool; the steps of different threads interleave.                        *)
(***************************************************************************)
\* the outcomes of yt-dlp and of ffmpeg in the concurrent requests
ConcYt ==
    {yt \in YtOutcomes : /\ yt.wrote # "other"
                         /\ yt.stderr = <<>>
                         /\ yt.size \in {None, 0, CACHE_MIN_SIZE + 1}}

ConcFf == {ff \in FfOutcomes : ff.out \in {None, CACHE_MIN_SIZE + 1}}

At(i, pc) == reqs[i].pc = pc

Goto(i, pc) == reqs' = [reqs EXCEPT ![i].pc = pc]

\* the status of the answer that the except clause of a handler gives
ExceptStatus(handler) == 500

\* the handler returns its answer
Respond(i, status) ==
    reqs' = [reqs EXCEPT ![i].pc = "done", ![i].status = status]

\* an exception reaches the except clause of download() or stream_file()
Raise(i) == Respond(i, ExceptStatus(reqs[i].op))

\* ensure_audio_compatibility or simple_audio_fix returns; after a download
\* the answer is the success answer whatever they return
Return(i) ==
    IF reqs[i].ret = "done" THEN Respond(i, 200) ELSE Goto(i, reqs[i].ret)

\* the call of ensure_audio_compatibility(filepath)
Ensure(i, ret) ==
    reqs' = [reqs EXCEPT ![i].pc = "ea_exists", ![i].ret = ret,
                         ![i].temp = TEMP_SUFFIX]

\* "if media_type == 'audio': ensure_audio_compatibility(output_path)" and
\* "return True, output_path"
PostFetch(i) ==
    IF reqs[i].media_type = "audio" THEN Ensure(i, "done")
    ELSE Respond(i, 200)

\* what the steps of the requests leave alone
Frame == <<now, last, discarded>>

\* a /download request with valid parameters arrives
StartDownload(i, ids, types) ==
    /\ At(i, "idle")
    /\ \E video_id \in ids, media_type \in types :
           reqs' = [reqs EXCEPT ![i] =
                        [Idle EXCEPT !.op = "download", !.pc = "dm_exists",
                                     !.video_id = video_id,
                                     !.media_type = media_type,
                                     !.filename =
                                         OutputFile(video_id, media_type)]]
    /\ UNCHANGED <<fs, nextGen, evicted, Frame>>

\* download_media: "if os.path.exists(output_path)"; on a miss yt-dlp is
\* started
DmExists(i) ==
    /\ At(i, "dm_exists")
    /\ IF Exists(fs, reqs[i].filename)
       THEN Goto(i, "dm_getsize")
       ELSE reqs' = [reqs EXCEPT ![i].pc = "dm_fetching", ![i].miss = TRUE]
    /\ UNCHANGED <<fs, nextGen, evicted, Frame>>

\* download_media: os.path.getsize and the test of the size
DmGetSize(i) ==
    /\ At(i, "dm_getsize")
    /\ IF ~Exists(fs, reqs[i].filename) THEN Raise(i)
       ELSE IF IsCacheHit(GetSize(fs, reqs[i].filename)) THEN PostFetch(i)
       ELSE Goto(i, "dm_remove")
    /\ UNCHANGED <<fs, nextGen, evicted, Frame>>

\* download_media: os.remove of the corrupt file, then yt-dlp is started
DmRemove(i) ==
    /\ At(i, "dm_remove")
    /\ IF ~Exists(fs, reqs[i].filename)
       THEN Raise(i) /\ UNCHANGED fs
       ELSE /\ fs' = Remove(fs, reqs[i].filename)
            /\ Goto(i, "dm_fetching")
    /\ UNCHANGED <<nextGen, evicted, Frame>>

\* download_media: the run of yt-dlp ends; at most writes file contents are
\* written in all
DmFetched(i, writes) ==
    /\ At(i, "dm_fetching")
    /\ \E yt \in ConcYt :
           /\ GenAfter(nextGen, yt.size) <= writes + 1
           /\ IF yt.rc # "ok"
              THEN Respond(i, 500) /\ UNCHANGED <<fs, nextGen, evicted>>
              ELSE /\ fs' = RunYtDlp(fs, reqs[i].video_id,
                                     reqs[i].media_type, yt, now, nextGen)
                   /\ nextGen' = GenAfter(nextGen, yt.size)
                   /\ reqs' = [reqs EXCEPT
                                  ![i].pc = "dm_found",
                                  ![i].wgen = IF yt.wrote = "canonical"
                                              THEN nextGen ELSE 0]
                   /\ evicted' = IF yt.wrote = "canonical"
                                 THEN evicted \ {reqs[i].filename}
                                 ELSE evicted
    /\ UNCHANGED Frame

\* download_media: "if os.path.exists(output_path)" after the run
DmFound(i) ==
    /\ At(i, "dm_found")
    /\ IF Exists(fs, reqs[i].filename) THEN PostFetch(i)
       ELSE Goto(i, "dm_scan")
    /\ UNCHANGED <<fs, nextGen, evicted, Frame>>

\* download_media: os.listdir and the first name that starts with video_id
DmScan(i) ==
    /\ At(i, "dm_scan")
    /\ LET matches == {n \in DOMAIN fs : StartsWith(n, reqs[i].video_id)}
       IN IF matches = {} THEN Respond(i, 500)
          ELSE \E found \in matches :
                   IF found = reqs[i].filename THEN PostFetch(i)
                   ELSE reqs' = [reqs EXCEPT ![i].pc = "dm_move",
                                             ![i].temp = found]
    /\ UNCHANGED <<fs, nextGen, evicted, Frame>>

\* download_media: shutil.move(found_path, output_path)
DmMove(i) ==
    /\ At(i, "dm_move")
    /\ IF ~Exists(fs, reqs[i].temp)
       THEN Respond(i, 500) /\ UNCHANGED <<fs, evicted>>
       ELSE /\ fs' = Move(fs, reqs[i].temp, reqs[i].filename)
            /\ evicted' = evicted \ {reqs[i].filename}
            /\ PostFetch(i)
    /\ UNCHANGED <<nextGen, Frame>>

\* ensure_audio_compatibility: "if not os.path.exists(filepath)"
EaExists(i) ==
    /\ At(i, "ea_exists")
    /\ IF Exists(fs, reqs[i].filename) THEN Goto(i, "ea_getsize")
       ELSE Return(i)
    /\ UNCHANGED <<fs, nextGen, evicted, Frame>>

\* ensure_audio_compatibility: os.path.getsize and the test of the size
EaGetSize(i) ==
    /\ At(i, "ea_getsize")
    /\ IF ~Exists(fs, reqs[i].filename) THEN Return(i)
       ELSE IF GetSize(fs, reqs[i].filename) < ENSURE_MIN_SIZE THEN Return(i)
       ELSE Goto(i, "ff_run")
    /\ UNCHANGED <<fs, nextGen, evicted, Frame>>

\* the else branch of ensure_audio_compatibility calls simple_audio_fix;
\* the one of simple_audio_fix returns False
Fallback(i) ==
    IF reqs[i].temp = TEMP_SUFFIX
    THEN reqs' = [reqs EXCEPT ![i].pc = "ff_run", ![i].temp = FIXED_SUFFIX]
    ELSE Return(i)

\* the run of ffmpeg in ensure_audio_compatibility or simple_audio_fix ends;
\* without its input ffmpeg fails and writes nothing
FfRun(i, writes) ==
    /\ At(i, "ff_run")
    /\ \E ff \in ConcFf :
           /\ Exists(fs, reqs[i].filename)
              \/ (ff.rc = "fail" /\ ff.out = None)
           /\ GenAfter(nextGen, ff.out) <= writes + 1
           /\ fs' = RunFfmpeg(fs, reqs[i].filename \o reqs[i].temp, ff, now,
                              nextGen)
           /\ nextGen' = GenAfter(nextGen, ff.out)
           /\ IF ff.rc = "timeout" THEN Return(i)
              ELSE IF ff.rc = "ok" THEN Goto(i, "ff_check")
              ELSE Fallback(i)
    /\ UNCHANGED <<evicted, Frame>>

\* "result.returncode == 0 and os.path.exists(temp_path)"
FfCheck(i) ==
    /\ At(i, "ff_check")
    /\ IF Exists(fs, reqs[i].filename \o reqs[i].temp)
       THEN Goto(i, "ff_remove")
       ELSE Fallback(i)
    /\ UNCHANGED <<fs, nextGen, evicted, Frame>>

\* os.remove(filepath) of the replacement
FfRemove(i) ==
    /\ At(i, "ff_remove")
    /\ IF ~Exists(fs, reqs[i].filename)
       THEN Return(i) /\ UNCHANGED fs
       ELSE /\ fs' = Remove(fs, reqs[i].filename)
            /\ Goto(i, "ff_move")
    /\ UNCHANGED <<nextGen, evicted, Frame>>

\* shutil.move(temp_path, filepath) of the replacement
FfMove(i) ==
    /\ At(i, "ff_move")
    /\ IF ~Exists(fs, reqs[i].filename \o reqs[i].temp)
       THEN UNCHANGED fs
       ELSE fs' = Move(fs, reqs[i].filename \o reqs[i].temp,
                       reqs[i].filename)
    /\ Return(i)
    /\ UNCHANGED <<nextGen, evicted, Frame>>

\* a /stream request for a safe name arrives
StartStream(i, names) ==
    /\ At(i, "idle")
    /\ \E filename \in names :
           reqs' = [reqs EXCEPT ![i] =
                        [Idle EXCEPT !.op = "stream", !.pc = "st_exists",
                                     !.filename = filename]]
    /\ UNCHANGED <<fs, nextGen, evicted, Frame>>

\* stream_file: "if not os.path.exists(filepath)"
StExists(i) ==
    /\ At(i, "st_exists")
    /\ IF Exists(fs, reqs[i].filename) THEN Goto(i, "st_getsize")
       ELSE Respond(i, 404)
    /\ UNCHANGED <<fs, nextGen, evicted, Frame>>

\* stream_file: os.path.getsize, the test of the size and the content type
StGetSize(i) ==
    /\ At(i, "st_getsize")
    /\ IF ~Exists(fs, reqs[i].filename) THEN Raise(i)
       ELSE IF GetSize(fs, reqs[i].filename) < STREAM_MIN_SIZE
       THEN Respond(i, 500)
       ELSE IF EndsWith(reqs[i].filename, MP3) THEN Ensure(i, "st_stat")
       ELSE Goto(i, "st_stat")
    /\ UNCHANGED <<fs, nextGen, evicted, Frame>>

\* stream_file: os.stat(filepath)
StStat(i) ==
    /\ At(i, "st_stat")
    /\ IF ~Exists(fs, reqs[i].filename) THEN Raise(i)
       ELSE Goto(i, "st_send")
    /\ UNCHANGED <<fs, nextGen, evicted, Frame>>

\* stream_file: send_file opens the file
StSend(i) ==
    /\ At(i, "st_send")
    /\ IF ~Exists(fs, reqs[i].filename) THEN Raise(i)
       ELSE Respond(i, 200)
    /\ UNCHANGED <<fs, nextGen, evicted, Frame>>

\* the answer is sent and the thread is free again
Finish(i) ==
    /\ At(i, "done")
    /\ reqs' = [reqs EXCEPT ![i] = Idle]
    /\ UNCHANGED <<fs, nextGen, evicted, Frame>>

\* the positions of a request between its first look at its file and its
\* answer
Reading ==
    {"dm_getsize", "dm_remove", "st_getsize", "st_stat", "st_send",
     "ea_exists", "ea_getsize", "ff_run", "ff_check", "ff_remove"}

\* cleanup_old_files: os.remove of one file that is older than a day; swept
\* marks the requests that were reading the file
SweepOne ==
    /\ \E n \in DOMAIN fs :
           /\ IsExpired(fs[n], now)
           /\ fs' = Remove(fs, n)
           /\ evicted' = IF n \in CanonicalNames(Ids)
                         THEN evicted \cup {n} ELSE evicted
           /\ reqs' = [i \in Slots |->
                          IF reqs[i].filename = n /\ reqs[i].pc \in Reading
                          THEN [reqs[i] EXCEPT !.swept = TRUE]
                          ELSE reqs[i]]
    /\ UNCHANGED <<nextGen, Frame>>

\* the steps of the thread i for /download requests for the audio of one id
DownloadStep(i, writes) ==
    \/ StartDownload(i, OneId, {"audio"})
    \/ DmExists(i) \/ DmGetSize(i) \/ DmRemove(i) \/ DmFetched(i, writes)
    \/ DmFound(i) \/ DmScan(i) \/ DmMove(i)
    \/ EaExists(i) \/ EaGetSize(i)
    \/ FfRun(i, writes) \/ FfCheck(i) \/ FfRemove(i) \/ FfMove(i)
    \/ Finish(i)

\* the steps of the thread i for /stream requests for that audio
StreamStep(i) ==
    \/ StartStream(i, {OutputFile(id, "audio") : id \in OneId})
    \/ StExists(i) \/ StGetSize(i) \/ StStat(i) \/ StSend(i)

\* /download requests at the same time
NextRace == \E i \in Slots : DownloadStep(i, MaxGen)
SpecRace == Init /\ [][NextRace]_vars

\* /download and /stream requests, the sweep and the clock at the same time
NextConc ==
    \/ \E i \in Slots : DownloadStep(i, MaxWrites) \/ StreamStep(i)
    \/ SweepOne
    \/ Tick
SpecConc == Init /\ [][NextConc]_vars

(***************************************************************************)
(* Properties.                                                             *)
(***************************************************************************)
IsDownload(l) == l.op = "download" /\ l.status # 400

\* C1: when download_media(id, kind) returned success and the next call has
\* the same arguments, the second call starts no fetch, and yt-dlp ran at
\* most once over the two calls.
C1_SecondCallIsHit ==
    [][(/\ IsDownload(last) /\ last.ok
        /\ IsDownload(last')
        /\ last'.video_id = last.video_id
        /\ last'.media_type = last.media_type)
       => (last'.fetched = 0 /\ last.fetched + last'.fetched <= 1)]_vars

C4_ServedAfterDiscard ==
    /\ discarded # {}
    /\ last.op = "stream" /\ last.resp.body.len > 0

\* the age of a file of the listing when the pass started
AgeAtStart(n) == last.current_time - last.pre[n].mtime

\* C5: when a pass of the sweep completes, every file older than 86400 s at
\* the start of the pass is deleted and every other file is kept as it was.
C5_CompletedPass ==
    (last.op = "sweep" /\ last.completed)
    => \A n \in DOMAIN last.pre :
           IF AgeAtStart(n) > MAX_FILE_AGE
           THEN n \notin DOMAIN fs
           ELSE n \in DOMAIN fs /\ fs[n] = last.pre[n]

\* a completed pass that deleted one file, kept a file of exactly the maximum
\* age and kept a younger one
C5_Witness ==
    /\ last.op = "sweep" /\ last.completed
    /\ \E n \in DOMAIN last.pre : AgeAtStart(n) > MAX_FILE_AGE
    /\ \E n \in DOMAIN last.pre : AgeAtStart(n) = MAX_FILE_AGE

\* C6: a failure on one file does not keep a pass from deleting the other
\* expired files of the listing.
C6_PassGoesOn ==
    last.op = "sweep"
    => \A n \in DOMAIN last.pre :
           (AgeAtStart(n) > MAX_FILE_AGE /\ n # last.unremovable)
           => n \notin DOMAIN fs

\* C7: two failed fetches of different failure conditions (non-zero exit,
\* timeout, zero exit without output) give different results, and a zero
\* exit without an output file never gives success.
C7_FailuresDistinct ==
    [][/\ (IsDownload(last) /\ ~last.ok /\ IsDownload(last') /\ ~last'.ok
           /\ last.cause # last'.cause)
          => last.detail # last'.detail
       /\ (IsDownload(last') /\ last'.fetched = 1 /\ last'.wrote = "none")
          => ~last'.ok]_vars

\* the file of the last /stream request passed the existence and size checks
Served ==
    /\ last.op = "stream"
    /\ last.preSize # None /\ last.preSize >= STREAM_MIN_SIZE

\* the file the last /stream request served
ServedFile == fs[last.filename]

\* the range a single-range header asks for of a file of the given size:
\* <<START, END>>, a missing START read as 0 and a missing END as size - 1;
\* <<>> for another header
AskedRange(h, size) ==
    IF Len(h) = 5 /\ h[1] = BYTES /\ h[2] = EQ /\ h[3].t = "num"
       /\ h[4] = DASH /\ h[5].t = "num"
    THEN <<h[3].v, h[5].v>>
    ELSE IF Len(h) = 4 /\ h[1] = BYTES /\ h[2] = EQ /\ h[3].t = "num"
            /\ h[4] = DASH
    THEN <<h[3].v, size - 1>>
    ELSE IF Len(h) = 4 /\ h[1] = BYTES /\ h[2] = EQ /\ h[3] = DASH
            /\ h[4].t = "num"
    THEN <<0, h[4].v>>
    ELSE <<>>

\* the 206 response for bytes first..last of the served file
IsPartial(resp, first, last_byte) ==
    /\ resp.status = 206
    /\ resp.crange = <<first, last_byte, ServedFile.size>>
    /\ resp.clen = last_byte - first + 1
    /\ resp.body = [gen |-> ServedFile.gen, from |-> first,
                    len |-> last_byte - first + 1]

\* C2: for a served file of size S and a header bytes=START-END with
\* 0 <= START < S and START <= END, the response is 206 with Content-Range
\* START-E/S, E = min(END, S-1), Content-Length E-START+1 and bytes START..E.
C2_RangeServed ==
    Served =>
        LET S == ServedFile.size
            r == AskedRange(last.range, S)
        IN (r # <<>> /\ r[1] < S /\ r[1] <= r[2])
           => IsPartial(last.resp, r[1], Min(r[2], S - 1))

\* C3: for a served file of size S and a Range header whose start is >= S,
\* the response is 416 and carries no byte of the file.
C3_Unsatisfiable ==
    Served =>
        LET S == ServedFile.size
            r == AskedRange(last.range, S)
        IN (r # <<>> /\ last.range[3].t = "num" /\ r[1] >= S)
           => (last.resp.status = 416 /\ last.resp.body.len = 0)

\* C8: without a Range header a file that passes the size check is answered
\* with 200, the whole file, and a Content-Length that is the size of the
\* file whose bytes are returned.
C8_WholeFile ==
    (Served /\ last.range = NoRange)
    => /\ last.resp.status = 200
       /\ last.resp.body = [gen |-> ServedFile.gen, from |-> 0,
                            len |-> ServedFile.size]
       /\ last.resp.clen = last.resp.size

MultiRange == Hdr(0, 10) \o <<COMMA, Num(20), DASH, Num(30)>>

\* C9: for the header bytes=0-10,20-30 the response is the 206 response for
\* bytes 0..10 alone.
C9_FirstRangeOnly ==
    (Served /\ last.range = MultiRange) => IsPartial(last.resp, 0, 10)

\* C10: a /stream request whose filename contains ".." or "/" is answered
\* with 400 and makes no file-system call.
C10_UnsafeNameRejected ==
    (last.op = "stream"
     /\ (Contains(last.filename, DOTDOT) \/ Contains(last.filename, SLASH)))
    => (last.resp.status = 400 /\ last.fsops = <<>>)

\* a rejected request for a name with a '/' and without ".."
C10_Witness ==
    /\ last.op = "stream"
    /\ Contains(last.filename, SLASH) /\ ~Contains(last.filename, DOTDOT)
    /\ last.resp.status = 400

\* the last response is a 206 response of send_range_request
IsRangeResponse ==
    /\ last.op = "stream"
    /\ EndsWith(last.filename, MP3) /\ last.range # NoRange
    /\ last.resp.status = 206

\* C13: every 206 response of send_range_request names a range
\* start-end/size with 0 <= start <= end < size, so that its Content-Length
\* is at least 1.
C13_RangeWellFormed ==
    IsRangeResponse
    => /\ 0 <= last.resp.crange[1]
       /\ last.resp.crange[1] <= last.resp.crange[2]
       /\ last.resp.crange[2] < last.resp.crange[3]
       /\ last.resp.clen >= 1

\* the canonical file of the last /download request
LastOutputFile == OutputFile(last.video_id, last.media_type)

\* C14: when download_media returns success, the returned path is
\* DOWNLOAD_DIR/{id}.mp3 for audio and DOWNLOAD_DIR/{id}.mp4 for video, and
\* a file exists at that path, also after yt-dlp wrote another extension and
\* after the audio was re-encoded; on failure the second component is an
\* error detail and no path of the download directory.
C14_ResolvePostcondition ==
    IsDownload(last)
    => IF last.ok
       THEN /\ last.detail = DOWNLOAD_DIR \o LastOutputFile
            /\ Exists(fs, LastOutputFile)
       ELSE ~StartsWith(last.detail, DOWNLOAD_DIR)

\* a successful audio download for which yt-dlp wrote another extension
C14_Witness ==
    /\ IsDownload(last) /\ last.ok
    /\ last.media_type = "audio" /\ last.wrote = "other"
    /\ Exists(fs, LastOutputFile)
    /\ fs[LastOutputFile].gen > 1

\* C15: a /stream request leaves the download directory as it was: no file
\* is created, deleted, replaced or renamed and no modification time
\* changes.
C15_StreamReadOnly ==
    [][last'.op = "stream" => fs' = fs]_vars

\* C17: when no request is in progress, every file of the download directory
\* is named {id}.mp3 or {id}.mp4; no '.temp.mp3', '.fixed.mp3' or
\* other-extension file remains.
C17_OnlyCanonicalNames ==
    \A n \in DOMAIN fs : n \in CanonicalNames(Ids)

\* C18: download_media(id, kind) leaves the cache file of every other entry
\* (the same id with the other kind, another id) in place and as it was.
C18_EntryIsolation ==
    [][IsDownload(last')
       => \A n \in CanonicalNames(Ids) \
                   {OutputFile(last'.video_id, last'.media_type)} :
              Exists(fs, n) => (Exists(fs', n) /\ fs'[n] = fs[n])]_vars

\* C19: when /download answered 200 with a stream_url and the next request
\* is a GET of that stream_url, the answer is 200 or 206.
C19_StreamAfterDownload ==
    [][(/\ IsDownload(last) /\ last.ok
        /\ last'.op = "stream"
        /\ last'.filename = LastOutputFile
        /\ last'.range = NoRange)
       => last'.resp.status \in {200, 206}]_vars

\* the file of generation g is in the directory under the name n
Holds(n, g) == Exists(fs, n) /\ fs[n].gen = g

\* C16: with the sweep thread scheduled fairly, a file whose age exceeds
\* 86400 s is deleted at some later time, whatever requests are served and
\* whatever deletions of other files fail in the meantime.
C16_EventuallyEvicted ==
    \A n \in CanonicalNames(Ids) : \A g \in 1..(MaxGen + 1) :
        [](last.op = "sweep" => last.unremovable # n)
        => []((Holds(n, g) /\ IsExpired(fs[n], now)) => <>(~Holds(n, g)))

\* two threads serve /download requests for the same id and kind
SameEntry(i, j) ==
    /\ i # j
    /\ reqs[i].op = "download" /\ reqs[j].op = "download"
    /\ reqs[i].filename = reqs[j].filename

\* C11: a request that observes a miss starts yt-dlp whatever the other
\* requests do, so two runs of yt-dlp for the same canonical path at the
\* same time are reachable; when a run writes the canonical file, the file
\* at the path is the one of that run, whatever another run left there.
C11_NoSingleFlight ==
    [][\A i \in Slots :
         /\ (At(i, "dm_exists") /\ ~Exists(fs, reqs[i].filename)
             /\ reqs'[i] # reqs[i])
            => (reqs'[i].pc = "dm_fetching" /\ reqs'[i].miss)
         /\ (At(i, "dm_fetching") /\ reqs'[i].pc = "dm_found"
             /\ reqs'[i].wgen # 0)
            => (/\ Exists(fs', reqs[i].filename)
                /\ fs'[reqs[i].filename].gen = reqs'[i].wgen)]_vars

\* two requests for the same entry that both observed a miss, with both
\* runs of yt-dlp in progress
C11_Witness ==
    \E i, j \in Slots :
        /\ SameEntry(i, j)
        /\ reqs[i].miss /\ reqs[j].miss
        /\ At(i, "dm_fetching") /\ At(j, "dm_fetching")

\* both runs wrote the canonical file and the file is the one of the later
\* run
C11_LastWriterWins ==
    \E i, j \in Slots :
        /\ SameEntry(i, j)
        /\ reqs[i].miss /\ reqs[j].miss
        /\ 0 < reqs[i].wgen /\ reqs[i].wgen < reqs[j].wgen
        /\ At(j, "dm_found")
        /\ Exists(fs, reqs[j].filename)
        /\ fs[reqs[j].filename].gen = reqs[j].wgen

\* the statuses of the answers of /download and /stream
HttpStatuses == {200, 206, 400, 404, 416, 500}

\* C12: when the sweep deletes a file while a /stream or /download request
\* is reading it, the request ends with an answer that has an HTTP status;
\* the deleted file stays absent until a fetch puts a file there, and a
\* /download for it that looks at the path then observes a miss and starts
\* yt-dlp.
C12_DeletionNonFatal ==
    [][/\ \A i \in Slots :
              (reqs'[i].pc = "done" /\ reqs'[i].swept)
              => reqs'[i].status \in HttpStatuses
       /\ \A n \in evicted' : ~Exists(fs', n)
       /\ \A j \in Slots :
              (At(j, "dm_exists") /\ reqs[j].filename \in evicted
               /\ reqs'[j] # reqs[j])
              => (reqs'[j].miss /\ reqs'[j].pc = "dm_fetching")]_vars

\* another request is between os.remove(filepath) and shutil.move(temp_path,
\* filepath) of a re-encode of the file of request i
ReplacingUnder(i) ==
    \E j \in Slots \ {i} :
        At(j, "ff_move") /\ reqs[j].filename = reqs[i].filename

\* C20: while a request re-encodes a cached audio file, no other request
\* finds the canonical path absent: no /stream is answered with 404 and no
\* download_media starts yt-dlp for it.
C20_AtomicReplacement ==
    [][\A i \in Slots :
         (\/ (At(i, "st_exists") /\ reqs'[i].pc = "done"
              /\ reqs'[i].status = 404)
          \/ (At(i, "dm_exists") /\ reqs'[i].pc = "dm_fetching"))
         => ~ReplacingUnder(i)]_vars
====
